---- MODULE Spec2Model ----
(***************************************************************************)
(* Model of the top-level package body of transformer_engine               *)
(* (src/transformer_engine/__init__.py).  The module body is a straight    *)
(* line of five statements; each statement is one action.  The environment *)
(* (what each import raises, what the distribution metadata holds) is      *)
(* fixed in the initial state and never changes during the execution.      *)
(***************************************************************************)
EXTENDS Integers, Sequences, FiniteSets, TLC

VARIABLES
    pc,            \* position in the module body
    ns,            \* names bound in the package namespace
    attempts,      \* how many times each statement has been executed
    version,       \* value bound to __version__ (Unset while unbound)
    raised,        \* exception that left the module body, with its line
    reads,         \* results of the reads of __version__ made by callers
    importRaises,  \* environment: what importing each submodule raises
    distMetadata   \* environment: version recorded in the dist metadata

vars == <<pc, ns, attempts, version, raised, reads, importRaises, distMetadata>>

----------------------------------------------------------------------------
(* Bounds *)

MaxReads == 2
NumVersions == 2

----------------------------------------------------------------------------
(* Environment *)

AllVersions == <<"3.1.0", "2.9.0.dev0", "1.13.0">>
Versions == {AllVersions[i] : i \in 1..NumVersions}

NotFound == "<no metadata>"
Unset == "<unbound>"
QueryFailed == "<query failed>"

Backends == {"pytorch", "jax"}
Steps == {"common", "pytorch", "jax", "version"}

\* Exceptions an import can raise in the model, "none" meaning it succeeds.
Raisable == {"ImportError", "ModuleNotFoundError", "FileNotFoundError",
             "OSError", "RuntimeError"}
Outcomes == {"none"} \cup Raisable

NoExc == [exc |-> "none", line |-> 0]

----------------------------------------------------------------------------
(* Exception matching of the two except clauses *)

\* Direct base class of each exception class used here.
Parent == [ModuleNotFoundError  |-> "ImportError",
           PackageNotFoundError |-> "ModuleNotFoundError",
           ImportError          |-> "Exception",
           FileNotFoundError    |-> "OSError",
           OSError              |-> "Exception",
           RuntimeError         |-> "Exception"]

RECURSIVE IsSubclass(_, _)
IsSubclass(e, c) ==
    \/ e = c
    \/ /\ e \in DOMAIN Parent
       /\ IsSubclass(Parent[e], c)

ExceptOnlyImportError == {"ImportError"}
ExceptClause == {"ImportError", "FileNotFoundError"}

HandledExact(e) == e \in ExceptClause
Handled(e) == \E c \in ExceptClause : IsSubclass(e, c)

----------------------------------------------------------------------------
(* Version lookup *)

MetadataVersionDefaulted(md) ==
    IF md = NotFound
    THEN [exc |-> "none", value |-> "0.0.0"]
    ELSE [exc |-> "none", value |-> md]
\* metadata.version("transformer_engine")
MetadataVersion(md) ==
    IF md = NotFound
    THEN [exc |-> "PackageNotFoundError", value |-> Unset]
    ELSE [exc |-> "none", value |-> md]

\* str(...) of a value that already is a str is that same value.
Str(v) == v

----------------------------------------------------------------------------
(* Views of the state *)

CoreState ==
    IF attempts["common"] = 0 THEN "not-attempted"
    ELSE IF "transformer_engine" \in ns THEN "active"
    ELSE "failed"

BackendState(b) ==
    IF attempts[b] = 0 THEN "not-attempted"
    ELSE IF b \in ns THEN "active"
    ELSE "inactive"

ActiveBackends == {b \in Backends : BackendState(b) = "active"}

----------------------------------------------------------------------------
(* Initial state *)

Init ==
    /\ pc = "import_metadata"
    /\ ns = {}
    /\ attempts = [s \in Steps |-> 0]
    /\ version = Unset
    /\ raised = NoExc
    /\ reads = <<>>
    /\ importRaises \in [{"common"} \cup Backends -> Outcomes]
    /\ distMetadata \in Versions \cup {NotFound}

----------------------------------------------------------------------------
(* Statements of the module body *)

ImportMetadataSkipCore ==
    /\ pc = "import_metadata"
    /\ ns' = ns \cup {"metadata"}
    /\ pc' = "try_pytorch"
    /\ UNCHANGED <<attempts, version, raised, reads, importRaises, distMetadata>>
ImportMetadataThenVersion ==
    /\ pc = "import_metadata"
    /\ ns' = ns \cup {"metadata"}
    /\ pc' = "version"
    /\ UNCHANGED <<attempts, version, raised, reads, importRaises, distMetadata>>
\* line 9: from importlib import metadata
ImportMetadata ==
    /\ pc = "import_metadata"
    /\ ns' = ns \cup {"metadata"}
    /\ pc' = "import_common"
    /\ UNCHANGED <<attempts, version, raised, reads, importRaises, distMetadata>>

ImportCommonSuppressed ==
    /\ pc = "import_common"
    /\ attempts' = [attempts EXCEPT !["common"] = @ + 1]
    /\ ns' = IF importRaises["common"] = "none"
             THEN ns \cup {"transformer_engine"} ELSE ns
    /\ pc' = "try_pytorch"
    /\ UNCHANGED <<version, raised, reads, importRaises, distMetadata>>
\* line 10: import transformer_engine.common (outside any try)
ImportCommon ==
    /\ pc = "import_common"
    /\ attempts' = [attempts EXCEPT !["common"] = @ + 1]
    /\ IF importRaises["common"] = "none"
       THEN /\ ns' = ns \cup {"transformer_engine"}
            /\ pc' = "try_pytorch"
            /\ raised' = raised
       ELSE /\ ns' = ns
            /\ pc' = "raised"
            /\ raised' = [exc |-> importRaises["common"], line |-> 10]
    /\ UNCHANGED <<version, reads, importRaises, distMetadata>>

\* try: from . import b / except (ImportError, FileNotFoundError): pass
TryImport(b, at, line, next) ==
    /\ pc = at
    /\ attempts' = [attempts EXCEPT ![b] = @ + 1]
    /\ IF importRaises[b] = "none"
       THEN /\ ns' = ns \cup {b}
            /\ pc' = next
            /\ raised' = raised
       ELSE IF Handled(importRaises[b])
       THEN /\ ns' = ns
            /\ pc' = next
            /\ raised' = raised
       ELSE /\ ns' = ns
            /\ pc' = "raised"
            /\ raised' = [exc |-> importRaises[b], line |-> line]
    /\ UNCHANGED <<version, reads, importRaises, distMetadata>>

ImportPytorchSkipJaxOnFailure ==
    TryImport("pytorch", "try_pytorch", 13,
              IF importRaises["pytorch"] = "none" THEN "try_jax" ELSE "version")
\* lines 12-15
ImportPytorch == TryImport("pytorch", "try_pytorch", 13, "try_jax")

ImportJaxOnlyWithPytorch ==
    IF "pytorch" \in ns
    THEN TryImport("jax", "try_jax", 18, "version")
    ELSE /\ pc = "try_jax"
         /\ pc' = "version"
         /\ UNCHANGED <<ns, attempts, version, raised, reads, importRaises, distMetadata>>
\* lines 17-20
ImportJax == TryImport("jax", "try_jax", 18, "version")

ResolveVersionLenient ==
    /\ pc = "version"
    /\ attempts' = [attempts EXCEPT !["version"] = @ + 1]
    /\ LET r == MetadataVersion(distMetadata) IN
       IF r.exc = "none"
       THEN /\ version' = Str(r.value)
            /\ ns' = ns \cup {"__version__"}
       ELSE /\ version' = version
            /\ ns' = ns
    /\ pc' = "done"
    /\ UNCHANGED <<raised, reads, importRaises, distMetadata>>
ResolveVersionByBackend ==
    /\ pc = "version"
    /\ attempts' = [attempts EXCEPT !["version"] = @ + 1]
    /\ LET r == MetadataVersion(distMetadata) IN
       IF r.exc = "none"
       THEN /\ version' = IF "pytorch" \in ns THEN Str(r.value) ELSE "unknown"
            /\ ns' = ns \cup {"__version__"}
            /\ pc' = "done"
            /\ raised' = raised
       ELSE /\ version' = version
            /\ ns' = ns
            /\ pc' = "raised"
            /\ raised' = [exc |-> r.exc, line |-> 22]
    /\ UNCHANGED <<reads, importRaises, distMetadata>>
\* line 22: __version__ = str(metadata.version("transformer_engine"))
ResolveVersion ==
    /\ pc = "version"
    /\ attempts' = [attempts EXCEPT !["version"] = @ + 1]
    /\ LET r == MetadataVersion(distMetadata) IN
       IF r.exc = "none"
       THEN /\ version' = Str(r.value)
            /\ ns' = ns \cup {"__version__"}
            /\ pc' = "done"
            /\ raised' = raised
       ELSE /\ version' = version
            /\ ns' = ns
            /\ pc' = "raised"
            /\ raised' = [exc |-> r.exc, line |-> 22]
    /\ UNCHANGED <<reads, importRaises, distMetadata>>

\* A caller reads transformer_engine.__version__ once the import statement
\* has returned or raised; the read fails when the name was never bound.
ReadVersion ==
    /\ pc \in {"done", "raised"}
    /\ Len(reads) < MaxReads
    /\ reads' = Append(reads, IF "__version__" \in ns THEN version ELSE QueryFailed)
    /\ UNCHANGED <<pc, ns, attempts, version, raised, importRaises, distMetadata>>

Next ==
    \/ ImportMetadata
    \/ ImportCommon
    \/ ImportPytorch
    \/ ImportJax
    \/ ResolveVersion
    \/ ReadVersion

Spec == Init /\ [][Next]_vars

TypeOK ==
    /\ pc \in {"import_metadata", "import_common", "try_pytorch", "try_jax",
               "version", "done", "raised"}
    /\ ns \subseteq {"metadata", "transformer_engine", "pytorch", "jax", "__version__"}
    /\ attempts \in [Steps -> 0..1]
    /\ version \in Versions \cup {Unset}
    /\ raised.line \in {0, 10, 13, 18, 22}
    /\ Len(reads) <= MaxReads

----------------------------------------------------------------------------
(* Vocabulary of the properties *)

\* Exceptions that signal a missing artifact: ImportError (with its subclass
\* ModuleNotFoundError) and FileNotFoundError.
AbsenceClass == {"ImportError", "ModuleNotFoundError", "FileNotFoundError"}
Tolerated == {"none"} \cup AbsenceClass

BackendLine == [pytorch |-> 13, jax |-> 18]

Terminated == pc \in {"done", "raised"}

ExpectedBackendState(outcome) == IF outcome = "none" THEN "active" ELSE "inactive"

ExpectedVersion(md) == IF md = NotFound THEN QueryFailed ELSE md

AllReadsAre(v) == \A i \in 1..Len(reads) : reads[i] = v

----------------------------------------------------------------------------
(* C1 *)

----------------------------------------------------------------------------
(* C2 *)

----------------------------------------------------------------------------
(* C3 *)

\* C3: when importing transformer_engine.common fails, the exception leaves
\* the module body from line 10 and neither backend import is ever attempted.
C3_CoreFailureFailsFast ==
    (attempts["common"] = 1 /\ importRaises["common"] # "none")
        => /\ pc = "raised"
           /\ raised = [exc |-> importRaises["common"], line |-> 10]
           /\ \A b \in Backends : attempts[b] = 0 /\ b \notin ns

C3_Witness ==
    /\ pc = "raised"
    /\ raised.line = 10
    /\ importRaises["pytorch"] = "none"
    /\ importRaises["jax"] = "none"
    /\ Len(reads) = 1

----------------------------------------------------------------------------
(* C4 *)

\* C4: with a healthy core, metadata present, and each backend either
\* importing cleanly or raising a not-installed error, the module body never
\* raises, and once it has run to its end the active backends are exactly
\* those whose import succeeds.
C4_ExactlyInstalledBackendsActive ==
    ( /\ importRaises["common"] = "none"
      /\ distMetadata \in Versions
      /\ \A b \in Backends : importRaises[b] \in Tolerated )
        => /\ pc # "raised"
           /\ raised = NoExc
           /\ attempts["version"] = 1
                  => /\ pc = "done"
                     /\ ActiveBackends = {b \in Backends : importRaises[b] = "none"}

C4_Witness ==
    /\ pc = "done"
    /\ importRaises["pytorch"] = "ModuleNotFoundError"
    /\ importRaises["jax"] = "none"
    /\ ActiveBackends = {"jax"}

----------------------------------------------------------------------------
(* C5 *)

\* C5: a backend whose import raises ImportError / ModuleNotFoundError /
\* FileNotFoundError ends inactive, nothing is raised from its line, and the
\* module body goes on to the next statement (jax after pytorch, the version
\* lookup after jax).
C5_AbsentBackendInactiveAndContinues ==
    /\ (attempts["pytorch"] = 1 /\ importRaises["pytorch"] \in AbsenceClass)
           => /\ BackendState("pytorch") = "inactive"
              /\ raised.line # 13
              /\ pc = "try_jax" \/ attempts["jax"] = 1
    /\ (attempts["jax"] = 1 /\ importRaises["jax"] \in AbsenceClass)
           => /\ BackendState("jax") = "inactive"
              /\ raised.line # 18
              /\ pc = "version" \/ attempts["version"] = 1

C5_Witness ==
    /\ importRaises["pytorch"] = "ImportError"
    /\ importRaises["jax"] = "FileNotFoundError"
    /\ pc = "done"
    /\ ActiveBackends = {}

----------------------------------------------------------------------------
(* C6 *)

----------------------------------------------------------------------------
(* C7 *)

\* C7: the import of transformer_engine.common runs at most once, and whenever
\* some backend's state is other than not-attempted it has run and succeeded.
C7_CoreOnceBeforeBackends ==
    /\ attempts["common"] <= 1
    /\ (\E b \in Backends : BackendState(b) # "not-attempted")
           => /\ attempts["common"] = 1
              /\ importRaises["common"] = "none"
              /\ "transformer_engine" \in ns

C7_Witness ==
    /\ pc = "try_jax"
    /\ BackendState("pytorch") = "active"
    /\ BackendState("jax") = "not-attempted"
    /\ CoreState = "active"

----------------------------------------------------------------------------
(* C8 *)

C8_State ==
    /\ attempts["version"] <= 1
    /\ \A i, j \in 1..Len(reads) : reads[i] = reads[j]
    /\ distMetadata = NotFound
           => /\ version = Unset
              /\ AllReadsAre(QueryFailed)

\* C8: line 22 runs at most once, __version__ never changes once bound, all
\* reads of it return the same value, and with the metadata missing every
\* read fails (no read returns a value).
C8_VersionSingleShot ==
    /\ []C8_State
    /\ [][version # Unset => version' = version]_vars

C8_Witness ==
    /\ distMetadata = NotFound
    /\ attempts["version"] = 1
    /\ Len(reads) = 2

----------------------------------------------------------------------------
(* C9 *)

----------------------------------------------------------------------------
(* C10 *)

\* C10: __version__ is bound only by the last statement: whenever it is bound
\* the core is active, both backend imports have been attempted and the
\* module body is complete; and when bootstrap aborts at line 10, 13 or 18
\* the version lookup never runs and __version__ stays unbound.
C10_VersionResolvedLast ==
    /\ (version # Unset \/ "__version__" \in ns \/ attempts["version"] = 1)
           => /\ "transformer_engine" \in ns
              /\ \A b \in Backends : attempts[b] = 1
    /\ version # Unset => pc = "done"
    /\ (pc = "raised" /\ raised.line \in {10, 13, 18})
           => /\ version = Unset
              /\ "__version__" \notin ns
              /\ attempts["version"] = 0

C10_Witness ==
    /\ pc = "raised"
    /\ raised.line = 13
    /\ raised.exc = "OSError"
    /\ distMetadata \in Versions
    /\ Len(reads) = 1

====
